---- MODULE Spec2Model ----
(***************************************************************************)
(* The Action Network contact loader                                       *)
(* (src/extensions/contact-loaders/actionnetwork/index.js) as a state      *)
(* machine.  One host call (getClientChoiceData or processContactLoad) runs*)
(* at a time; pc is the await at which its async chain is suspended.  The  *)
(* upstream API, the timer and the contact store are the environment: each *)
(* request can succeed or fail, and the fetches of one batch can complete  *)
(* in any order.                                                           *)
(***************************************************************************)
EXTENDS Integers, Sequences, FiniteSets, TLC

\* ---------------------------------------------------------------- bounds
\* Largest total_pages the upstream reports.
MaxPages == 6
\* Host calls in one behaviour.
MaxCalls == 2

\* ------------------------------------------------------------- constants
REQUESTS_PER_SECOND == 4
WAIT_MILLIS == 1100
\* firstPagePromises.length: the array literal of line 123 holds one promise.
FirstPagePromisesLength == 1
\* Chunk size handed to knex.batchInsert.
INSERT_CHUNK == 100
\* defaults.CACHE_TTL
DEFAULT_CACHE_TTL == 1800
\* A first page whose body has no total_pages: reading it gives undefined.
Undefined == -1

VARIABLES
  op,             \* the host call in progress or last made: "none" | "choice" | "load"
  pc,             \* the await the chain is suspended at, or "idle" / "done"
  calls,          \* host calls started so far
  upstreamPages,  \* total_pages the upstream reports for the endpoint of this call
  cacheTtl,       \* getConfig(envVars.CACHE_TTL, organization), as Number() reads it
  responses,      \* responses[extractKey]: page bodies in the order pushed
  pageToDo,       \* page numbers still to fetch after page 1
  pageToDoStart,
  thisTranche,    \* page numbers of the batch in flight
  arrived,        \* pages of thisTranche whose fetch has resolved, in arrival order
  reqLog,         \* this pager call's page requests, timer waits and failed fetches, in order
  pagerStatus,    \* "none" | "running" | "returned" | "thrown"
  items,          \* what getActionNetworkPages returned
  job,            \* [campaign_id, payload] of the load
  itemIdx,        \* index into items of the for-of loop of getContactsFromList
  people,         \* contacts accumulated by getContactsFromList
  fetchFailed,    \* item indexes whose person fetch failed
  skipped,        \* item indexes whose person makeContact rejected
  store,          \* campaign_contact: campaign id -> rows
  rowsBefore,     \* the campaign's rows when the load was invoked
  callbacks,      \* host callbacks this call has made
  outcome,        \* "none" | "returned" | "thrown": how the host call settled
  error,          \* the error a thrown call rejected with
  choiceResult,   \* what getClientChoiceData returned
  reordered,      \* a tranche of this pager call resolved out of page order
  prevLoad,       \* <<the load that returned just before this call>>, or <<>>
  organization,   \* the organization the host call is made for
  maxContacts,    \* the maxContacts argument of processContactLoad
  othersBefore    \* the rows of the other campaigns when the load was invoked

vars == <<op, pc, calls, upstreamPages, cacheTtl, responses, pageToDo,
          pageToDoStart, thisTranche, arrived, reqLog, pagerStatus, items, job,
          itemIdx, people, fetchFailed, skipped, store, rowsBefore, callbacks,
          outcome, error, choiceResult, reordered, prevLoad, organization,
          maxContacts, othersBefore>>

pagerVars == <<responses, pageToDo, pageToDoStart, thisTranche, arrived,
               reqLog, pagerStatus, items, reordered>>
loadVars == <<job, itemIdx, people, fetchFailed, skipped, rowsBefore>>
callVars == <<organization, maxContacts, othersBefore>>

\* ------------------------------------------------------------ the upstream
Campaigns == {1, 2}

\* The host's organizations.  Campaign 1 belongs to orgA, which has its own
\* settings and a contact limit of 1; campaign 2 to orgB, which has only a key.
Organizations == {"orgA", "orgB"}
OrgOfCampaign(campaignId) == IF campaignId = 1 THEN "orgA" ELSE "orgB"
MaxContactsOf(org) == IF org = "orgA" THEN 1 ELSE 250
PERSON_ID == "action_network:person_id"

\* The people the upstream knows.
Persons ==
  [ p1 |-> [given_name |-> "A", family_name |-> "B",
            custom_fields |-> [Phone |-> "2135551212"],
            postal_addresses |-> <<[postal_code |-> "10011"]>>],
    p2 |-> [given_name |-> "NoPhone", family_name |-> "X",
            custom_fields |-> [Email |-> "x@example.org"],
            postal_addresses |-> <<[postal_code |-> "10011"]>>],
    p3 |-> [given_name |-> "NoAddress", family_name |-> "Y",
            custom_fields |-> [Phone |-> "2135550000"],
            postal_addresses |-> <<>>],
    p4 |-> [given_name |-> "C", family_name |-> "D",
            custom_fields |-> [Phone |-> "6175551212"],
            postal_addresses |-> <<[postal_code |-> "02139"],
                                   [postal_code |-> "10011"]>>] ]

\* A list item: its own identifier and, when it stands for a person, the id.
Item(page, n, pid) ==
  IF pid = "" THEN ("identifiers" :> <<page, n>>)
  ELSE ("identifiers" :> <<page, n>>) @@ (PERSON_ID :> pid)

\* A list record of the lists endpoint.  An identifier string is kept as the
\* sequence of its pieces, so that the regular expression can search it.
ListRecord(name, title, ids) ==
  [name |-> name, title |-> title, identifiers |-> ids]

\* The embedded collection of page `page` of an endpoint, or <<>> when the
\* body has none.  kind is "lists" or "items"; list is the list identifier of
\* an items endpoint.  Pages 1 to 5 differ and every later page is like page
\* 5; list L2 holds the pages of L1 with pages 1 to 3 rotated.
ContentKey(list, page) ==
  IF page >= 5 THEN 5
  ELSE IF page = 4 THEN 4
  ELSE IF list = "L2" THEN (page % 3) + 1
  ELSE page

EmbeddedOf(kind, list, page) ==
  LET k == ContentKey(list, page) IN
  IF kind = "items" THEN
    CASE k = 1 -> <<Item(page, 1, "p1"), Item(page, 2, "")>>
      [] k = 2 -> <<Item(page, 1, "p2")>>
      [] k = 3 -> <<Item(page, 1, "p3"), Item(page, 2, "p4")>>
      [] k = 4 -> <<>>
      [] OTHER -> <<Item(page, 1, "")>>
  ELSE
    CASE k = 1 -> <<ListRecord("Volunteers", "",
                               << <<"other:", "9">>, <<"action_network:", "v1">> >>),
                    ListRecord("", "Untitled", << <<"action_network:", "u1">> >>)>>
      [] k = 2 -> <<ListRecord("Donors", "", << <<"other:", "7">> >>)>>
      [] k = 3 -> <<ListRecord("Members", "",
                               << <<"x-", "action_network:", "m1">>,
                                  <<"action_network:", "m2">> >>),
                    ListRecord("Zed", "",
                               << <<"action_network:">>,
                                  <<"action_network:", "z9">> >>)>>
      [] k = 4 -> <<>>
      [] OTHER -> <<ListRecord("Empty", "", << <<"action_network:">> >>)>>

\* The JSON body of a page.  An optional member is a sequence of length 0 or
\* 1.  The page with content key 4 has no _embedded member at all.
PageBody(kind, list, page, total) ==
  [total_pages |-> IF total = Undefined THEN <<>> ELSE <<total>>,
   embedded |-> IF ContentKey(list, page) = 4 THEN <<>>
                ELSE <<[key |-> "osdi:" \o kind,
                        value |-> EmbeddedOf(kind, list, page)]>>]

\* ---------------------------------------------------- the code's functions
\* envVars and defaults.
ENV_API_KEY == "ACTION_NETWORK_API_KEY"
ENV_DOMAIN == "ACTION_NETWORK_API_DOMAIN"
ENV_BASE_URL == "ACTION_NETWORK_API_BASE_URL"
ENV_CACHE_TTL == "ACTION_NETWORK_ACTION_HANDLER_CACHE_TTL"
DEFAULT_DOMAIN == "https://actionnetwork.org"
DEFAULT_BASE_URL == "/api/v2"

\* The settings store behind getConfig: the global values and each
\* organization's own.
GlobalSettings == (ENV_DOMAIN :> "https://an.global.example")

OrgSettings(org) ==
  IF org = "orgA"
  THEN (ENV_API_KEY :> "keyA") @@ (ENV_DOMAIN :> "https://an.orga.example")
         @@ (ENV_BASE_URL :> "/api/v3") @@ (ENV_CACHE_TTL :> "60")
  ELSE IF org = "orgB" THEN (ENV_API_KEY :> "keyB")
  ELSE <<>>

\* getConfig(key, organization) of server/api/lib/config: the organization's
\* value, else the global one, else undefined (""); with no organization
\* given (NoOrganization) only the global value.
NoOrganization == ""

GetConfig(key, org) ==
  IF key \in DOMAIN OrgSettings(org) THEN OrgSettings(org)[key]
  ELSE IF key \in DOMAIN GlobalSettings THEN GlobalSettings[key]
  ELSE ""

\* a || b on strings
Or(a, b) == IF a = "" THEN b ELSE a

\* makeUrl(url): getConfig is called without the organization.
MakeUrl(url) ==
  Or(GetConfig(ENV_DOMAIN, NoOrganization), DEFAULT_DOMAIN)
    \o Or(GetConfig(ENV_BASE_URL, NoOrganization), DEFAULT_BASE_URL)
    \o "/" \o url

\* makeAuthHeader(organization)
MakeAuthHeader(org) == [token |-> GetConfig(ENV_API_KEY, org)]

\* The item argument of getPage: "lists", or `lists/${listIdentifier}/items`.
Endpoint(kind, list) ==
  IF kind = "lists" THEN "lists" ELSE "lists/" \o list \o "/items"

\* makeContact's timezone lookup, getTimezoneByZip of workers/jobs.
TimezoneByZip(zip) ==
  CASE zip = "10011" -> "-5_1"
    [] zip = "02139" -> "-5_1"
    [] OTHER -> ""

\* Array.prototype.slice(start, end) on a sequence, with 0-based bounds.
Slice(s, start, end) ==
  LET hi == IF end < Len(s) THEN end ELSE Len(s) IN
  IF start >= hi THEN <<>> ELSE SubSeq(s, start + 1, hi)

\* for (let i = 2; i <= pageCount; ++i) pageToDo.push(i); with pageCount
\* undefined the comparison is false at once.
PageToDoFromOne(pageCount) ==
  IF pageCount = Undefined \/ pageCount < 1 THEN <<>>
  ELSE [i \in 1..pageCount |-> i]

PageToDoWithSecond(pageCount) ==
  IF pageCount = Undefined \/ pageCount < 2 THEN <<2>>
  ELSE [i \in 1..(pageCount - 1) |-> i + 1]

PageToDoFor(pageCount) ==
  IF pageCount = Undefined \/ pageCount < 2 THEN <<>>
  ELSE [i \in 1..(pageCount - 1) |-> i + 1]

\* firstThingsResponse.pageResponse.total_pages
TotalPagesOf(body) ==
  IF body.total_pages = <<>> THEN Undefined ELSE body.total_pages[1]

\* The condition of the if that guards the timer wait.
NeedsWaitFullWindow(toDo) ==
  Len(toDo) > REQUESTS_PER_SECOND

NeedsWaitRemaining(toDo) ==
  Len(toDo) - pageToDoStart > REQUESTS_PER_SECOND - FirstPagePromisesLength

NeedsWait(toDo) ==
  Len(toDo) > REQUESTS_PER_SECOND - FirstPagePromisesLength

PageToDoEndWide(start) == start + REQUESTS_PER_SECOND + 1

\* pageToDoEnd
PageToDoEnd(start) == start + REQUESTS_PER_SECOND

\* The order in which a settled batch's bodies are pushed: Promise.all keeps
\* the order of the promises it was given, whatever the order of arrival.
PushOrderByArrival(tranche, arrival) == arrival

PushOrder(tranche, arrival) == tranche

\* (response._embedded || [])[`osdi:${item}`] || []
EmbeddedItems(item, response) ==
  IF response.embedded = <<>> THEN <<>>
  ELSE IF response.embedded[1].key = "osdi:" \o item
       THEN response.embedded[1].value
       ELSE <<>>

RECURSIVE ExtractReceived(_, _)
ExtractReceived(item, resps) ==
  IF resps = <<>> THEN <<>>
  ELSE EmbeddedItems(item, Head(resps)) \o ExtractReceived(item, Tail(resps))

\* /action_network:(.*)/.exec(candidate): the text after the first
\* "action_network:", or no match.  [matched, group]
RECURSIVE Concat(_)
Concat(pieces) ==
  IF pieces = <<>> THEN "" ELSE Head(pieces) \o Concat(Tail(pieces))

RegexExec(candidate) ==
  LET hits == {i \in 1..Len(candidate) : candidate[i] = "action_network:"} IN
  IF hits = {} THEN [matched |-> FALSE, group |-> ""]
  ELSE LET first == CHOOSE i \in hits : \A j \in hits : i <= j
       IN  [matched |-> TRUE,
            group |-> Concat(SubSeq(candidate, first + 1, Len(candidate)))]

\* (thing.identifiers || []).some(...): the group of the first candidate that
\* matches, or "" standing for the identifier left undefined.
RECURSIVE FirstIdentifierLast(_)
FirstIdentifierLast(ids) ==
  IF ids = <<>> THEN ""
  ELSE IF RegexExec(ids[Len(ids)]).matched THEN RegexExec(ids[Len(ids)]).group
       ELSE FirstIdentifierLast(SubSeq(ids, 1, Len(ids) - 1))

RECURSIVE FirstIdentifier(_)
FirstIdentifier(ids) ==
  IF ids = <<>> THEN ""
  ELSE IF RegexExec(Head(ids)).matched THEN RegexExec(Head(ids)).group
       ELSE FirstIdentifier(Tail(ids))

\* The forEach of getContactLists over the fetched list records.
RECURSIVE GetContactLists(_)
GetContactLists(fetched) ==
  IF fetched = <<>> THEN <<>>
  ELSE LET thing == Head(fetched)
           identifier == FirstIdentifier(thing.identifiers)
       IN  IF identifier = "" \/ thing.name = ""
           THEN GetContactLists(Tail(fetched))
           ELSE <<[name |-> thing.name, identifier |-> identifier]>>
                  \o GetContactLists(Tail(fetched))

\* JSON.stringify of the two payloads getClientChoiceData returns.
RECURSIVE StringifyChoices(_)
StringifyChoices(choices) ==
  IF choices = <<>> THEN ""
  ELSE "{\"name\":\"" \o Head(choices).name \o "\",\"identifier\":\""
         \o Head(choices).identifier \o "\"}"
         \o (IF Len(choices) > 1 THEN "," ELSE "")
         \o StringifyChoices(Tail(choices))

StringifyItems(choices) == "{\"items\":[" \o StringifyChoices(choices) \o "]}"

ErrorPayload == "{\"error\":\"Failed to load choices from ActionNetwork\"}"

\* Number(getConfig(envVars.CACHE_TTL, organization)) || defaults.CACHE_TTL:
\* the setting is "" when unset and a string otherwise.
ExpiresSeconds(setting) ==
  CASE setting = "60" -> 60
    [] OTHER -> DEFAULT_CACHE_TTL

\* makeContact(person, campaignId): [threw, value]; threw is the message of
\* the Error thrown, "" when it returns value.
NoContact == [first_name |-> "", last_name |-> "", cell |-> "", zip |-> "",
              timezone_offset |-> "", message_status |-> "", campaign_id |-> 0]

MakeContactNoChecks(person, campaignId) ==
  [threw |-> "",
   value |-> [first_name |-> person.given_name,
              last_name |-> person.family_name,
              cell |-> "+1" \o (IF "Phone" \in DOMAIN person.custom_fields
                                THEN person.custom_fields.Phone
                                ELSE "undefined"),
              zip |-> IF person.postal_addresses = <<>> THEN ""
                      ELSE person.postal_addresses[1].postal_code,
              timezone_offset |-> "",
              message_status |-> "needsMessage",
              campaign_id |-> campaignId]]

MakeContact(person, campaignId) ==
  IF ~("Phone" \in DOMAIN person.custom_fields)
  THEN [threw |-> "Contact missing Phone field", value |-> NoContact]
  ELSE IF Len(person.postal_addresses) = 0
  THEN [threw |-> "Contact missing postal address", value |-> NoContact]
  ELSE [threw |-> "",
        value |-> [first_name |-> person.given_name,
                   last_name |-> person.family_name,
                   cell |-> "+1" \o person.custom_fields.Phone,
                   zip |-> person.postal_addresses[1].postal_code,
                   timezone_offset |->
                     TimezoneByZip(person.postal_addresses[1].postal_code),
                   message_status |-> "needsMessage",
                   campaign_id |-> campaignId]]

\* "action_network:person_id" in item
HasPersonId(item) == PERSON_ID \in DOMAIN item

\* The for-of loop of getContactsFromList runs on, without suspending, to the
\* next item that names a person: its index, or 0 when the loop is over.
NextPersonIdxFromEnd(its, from) ==
  LET cand == {i \in from..Len(its) : HasPersonId(its[i])} IN
  IF cand = {} THEN 0 ELSE CHOOSE i \in cand : \A j \in cand : i >= j

NextPersonIdx(its, from) ==
  LET cand == {i \in from..Len(its) : HasPersonId(its[i])} IN
  IF cand = {} THEN 0 ELSE CHOOSE i \in cand : \A j \in cand : i <= j

\* The catch block around getPerson and makeContact: empty, it takes every error.
LoopCatchesTransportOnly(kind) == kind = "transport"

LoopCatches(kind) == TRUE

\* JSON.parse(job.payload): [threw, value]
Payloads == {"{\"listIdentifier\":\"L1\",\"requestContactCount\":3}",
             "{\"listIdentifier\":\"L2\"}",
             "{listIdentifier"}

JsonParse(payload) ==
  CASE payload = "{\"listIdentifier\":\"L1\",\"requestContactCount\":3}" ->
         [threw |-> FALSE, listIdentifier |-> "L1", requestContactCount |-> "3"]
    [] payload = "{\"listIdentifier\":\"L2\"}" ->
         [threw |-> FALSE, listIdentifier |-> "L2",
          requestContactCount |-> "undefined"]
    [] OTHER -> [threw |-> TRUE, listIdentifier |-> "", requestContactCount |-> ""]

\* r.knex("campaign_contact").where("campaign_id", campaignId).delete()
DeleteNothing(table, campaignId) == table

DeleteWhereNot(table, campaignId) ==
  SelectSeq(table, LAMBDA row : row.campaign_id = campaignId)

DeleteAll(table, campaignId) == <<>>

DeleteWhere(table, campaignId) ==
  SelectSeq(table, LAMBDA row : row.campaign_id # campaignId)

\* r.knex.batchInsert("campaign_contact", rows, chunkSize): chunk after chunk,
\* in one transaction.
RECURSIVE BatchInsert(_, _, _)
BatchInsert(table, rows, chunkSize) ==
  IF rows = <<>> THEN table
  ELSE BatchInsert(table \o Slice(rows, 0, chunkSize),
                   Slice(rows, chunkSize, Len(rows)), chunkSize)

\* The rows of one campaign, in table order, and those of the others.
RowsOf(table, campaignId) ==
  SelectSeq(table, LAMBDA row : row.campaign_id = campaignId)

OthersOf(table, campaignId) ==
  SelectSeq(table, LAMBDA row : row.campaign_id # campaignId)

\* finalCount: actionNetworkContacts.length; maxContacts is not looked at.
FinalCountCapped(contacts, limit) ==
  IF Len(contacts) > limit THEN limit ELSE Len(contacts)

FinalCount(contacts, limit) == Len(contacts)

\* The fourth argument of completeContactLoad.
StringifyFinalCount(n) == "{\"finalCount\":" \o ToString(n) \o "}"

\* ------------------------------------------------------------------ state
OldRow(campaignId) ==
  [first_name |-> "Old", last_name |-> "Row", cell |-> "+15550000000",
   zip |-> "00000", timezone_offset |-> "", message_status |-> "messaged",
   campaign_id |-> campaignId]

NoChoice == [data |-> "", expiresSeconds |-> 0]

\* The endpoint of the pager call in progress.
Kind == IF op = "choice" THEN "lists" ELSE "items"
ListOf(j) == JsonParse(j.payload).listIdentifier
List == IF op = "choice" THEN "" ELSE ListOf(job)

\* The events of the log: a getPage request, a timer wait, a failed page
\* fetch, a getPerson request.
Req(kind, list, page, org) ==
  [ev |-> "req", page |-> page, ms |-> 0,
   path |-> Endpoint(kind, list) \o "?page=" \o ToString(page),
   url |-> MakeUrl(Endpoint(kind, list) \o "?page=" \o ToString(page)),
   header |-> MakeAuthHeader(org)]
Wait(ms) == [ev |-> "wait", page |-> 0, ms |-> ms]
Fail(page) == [ev |-> "fail", page |-> page, ms |-> 0]
PersonReq(identifier, org) ==
  [ev |-> "person", page |-> 0, ms |-> 0,
   path |-> "people/" \o identifier,
   url |-> MakeUrl("people/" \o identifier),
   header |-> MakeAuthHeader(org)]

Init ==
  /\ op = "none"
  /\ pc = "idle"
  /\ calls = 0
  /\ upstreamPages = 1
  /\ cacheTtl = ""
  /\ responses = <<>>
  /\ pageToDo = <<>>
  /\ pageToDoStart = 0
  /\ thisTranche = <<>>
  /\ arrived = <<>>
  /\ reqLog = <<>>
  /\ pagerStatus = "none"
  /\ items = <<>>
  /\ job = [campaign_id |-> 1, payload |-> ""]
  /\ itemIdx = 1
  /\ people = <<>>
  /\ fetchFailed = {}
  /\ skipped = {}
  /\ store \in {<<>>, <<OldRow(1), OldRow(2)>>}
  /\ rowsBefore = <<>>
  /\ callbacks = <<>>
  /\ outcome = "none"
  /\ error = ""
  /\ choiceResult = NoChoice
  /\ reordered = FALSE
  /\ prevLoad = <<>>
  /\ organization = "orgA"
  /\ maxContacts = 0
  /\ othersBefore = <<>>

\* What a host call starts from, whichever call it is.
FreshCall ==
  /\ pc \in {"idle", "done"}
  /\ calls < MaxCalls
  /\ calls' = calls + 1
  /\ responses' = <<>>
  /\ pageToDo' = <<>>
  /\ pageToDoStart' = 0
  /\ thisTranche' = <<>>
  /\ arrived' = <<>>
  /\ items' = <<>>
  /\ reordered' = FALSE
  /\ itemIdx' = 1
  /\ people' = <<>>
  /\ fetchFailed' = {}
  /\ skipped' = {}
  /\ callbacks' = <<>>
  /\ outcome' = "none"
  /\ error' = ""
  /\ choiceResult' = NoChoice

\* The host call rejects with an error of the given kind.
Throws(kind) ==
  /\ outcome' = "thrown"
  /\ error' = kind
  /\ pc' = "done"

\* The catch block of getClientChoiceData: what the call settles as.
ChoiceCatchRethrows == [outcome |-> "thrown", data |-> ""]

ChoiceCatch == [outcome |-> "returned", data |-> ErrorPayload]

\* getActionNetworkPages rethrows: getContactLists and getContactsFromList
\* let it through; getClientChoiceData catches it, processContactLoad does not.
PagerThrows ==
  /\ pagerStatus' = "thrown"
  /\ IF op = "choice"
     THEN /\ outcome' = ChoiceCatch.outcome
          /\ choiceResult' = [data |-> ChoiceCatch.data, expiresSeconds |-> 0]
          /\ error' = IF ChoiceCatch.outcome = "thrown" THEN "page" ELSE ""
          /\ pc' = "done"
     ELSE /\ Throws("page")
          /\ UNCHANGED choiceResult

\* getActionNetworkPages up to its first await: page 1 is requested.
CallsPager(kind, list, org) ==
  /\ pagerStatus' = "running"
  /\ reqLog' = <<Req(kind, list, 1, org)>>
  /\ pc' = "first"

\* ---------------------------------------------------------------- actions
\* The host calls getClientChoiceData(organization, campaign, user).
StartChoice ==
  /\ FreshCall
  /\ op' = "choice"
  /\ upstreamPages' \in {Undefined} \cup (0..MaxPages)
  /\ \E org \in Organizations :
       /\ organization' = org
       /\ cacheTtl' = GetConfig(ENV_CACHE_TTL, org)
       /\ CallsPager("lists", "", org)
  /\ prevLoad' = <<>>
  /\ UNCHANGED <<job, store, rowsBefore, maxContacts, othersBefore>>

\* The host calls processContactLoad(job, maxContacts, organization): the
\* delete is issued.
\* processContactLoad is called.
StartLoadEager ==
  /\ FreshCall
  /\ op' = "load"
  /\ \E c \in Campaigns, payload \in Payloads :
       /\ job' = [campaign_id |-> c, payload |-> payload]
       /\ rowsBefore' = RowsOf(store, c)
       /\ othersBefore' = OthersOf(store, c)
       /\ organization' = OrgOfCampaign(c)
       /\ maxContacts' = MaxContactsOf(OrgOfCampaign(c))
       /\ reqLog' = <<Req("items", JsonParse(payload).listIdentifier, 1,
                          OrgOfCampaign(c))>>
  /\ upstreamPages' \in {Undefined} \cup (0..MaxPages)
  /\ pagerStatus' = "none"
  /\ pc' = "delete"
  /\ prevLoad' = <<>>
  /\ UNCHANGED <<cacheTtl, store>>

StartLoad ==
  /\ FreshCall
  /\ op' = "load"
  /\ \E c \in Campaigns, payload \in Payloads :
       /\ job' = [campaign_id |-> c, payload |-> payload]
       /\ rowsBefore' = RowsOf(store, c)
       /\ othersBefore' = OthersOf(store, c)
       /\ organization' = OrgOfCampaign(c)
       /\ maxContacts' = MaxContactsOf(OrgOfCampaign(c))
  /\ upstreamPages' \in {Undefined} \cup (0..MaxPages)
  /\ pagerStatus' = "none"
  /\ reqLog' = <<>>
  /\ pc' = "delete"
  /\ prevLoad' = <<>>
  /\ UNCHANGED <<cacheTtl, store>>

\* The host runs the load that has just returned once more: the same job,
\* against an upstream whose data has not changed.
RerunLoad ==
  /\ op = "load"
  /\ outcome = "returned"
  /\ FreshCall
  /\ prevLoad' = <<[fetchFailed |-> fetchFailed,
                    rows |-> RowsOf(store, job.campaign_id)]>>
  /\ rowsBefore' = RowsOf(store, job.campaign_id)
  /\ othersBefore' = OthersOf(store, job.campaign_id)
  /\ pagerStatus' = "none"
  /\ reqLog' = <<>>
  /\ pc' = "delete"
  /\ UNCHANGED <<op, job, upstreamPages, cacheTtl, store, organization,
                 maxContacts>>

\* The delete resolves; the payload is parsed and the pager is called.
DeleteResolves ==
  /\ pc = "delete"
  /\ store' = DeleteWhere(store, job.campaign_id)
  /\ IF JsonParse(job.payload).threw
     THEN /\ Throws("SyntaxError")
          /\ UNCHANGED <<pagerStatus, reqLog>>
     ELSE /\ CallsPager("items", ListOf(job), organization)
          /\ UNCHANGED <<outcome, error>>
  /\ UNCHANGED <<callVars, op, calls, upstreamPages, cacheTtl, responses, pageToDo,
                 pageToDoStart, thisTranche, arrived, items, reordered, loadVars, callbacks, choiceResult, prevLoad>>

DeleteRejects ==
  /\ pc = "delete"
  /\ Throws("delete")
  /\ UNCHANGED <<callVars, op, calls, upstreamPages, cacheTtl, pagerVars, loadVars,
                 store, callbacks, choiceResult, prevLoad>>

\* Page 1 arrives: its body is pushed and the pages still to do are listed.
FirstPageResolves ==
  /\ pc = "first"
  /\ LET body == PageBody(Kind, List, 1, upstreamPages) IN
       /\ responses' = Append(responses, body)
       /\ pageToDo' = PageToDoFor(TotalPagesOf(body))
  /\ pageToDoStart' = 0
  /\ pc' = "loop"
  /\ UNCHANGED <<callVars, op, calls, upstreamPages, cacheTtl, thisTranche, arrived,
                 reqLog, pagerStatus, items, reordered, loadVars, store,
                 callbacks, outcome, error, choiceResult, prevLoad>>

FirstPageRejects ==
  /\ pc = "first"
  /\ reqLog' = Append(reqLog, Fail(1))
  /\ PagerThrows
  /\ UNCHANGED <<callVars, op, calls, upstreamPages, cacheTtl, responses, pageToDo,
                 pageToDoStart, thisTranche, arrived, items, reordered,
                 loadVars,
                 store, callbacks, prevLoad>>

\* getPage is called for every page of the next tranche.
IssuesTranche ==
  LET tranche == Slice(pageToDo, pageToDoStart, PageToDoEnd(pageToDoStart)) IN
    /\ thisTranche' = tranche
    /\ arrived' = <<>>
    /\ reqLog' = reqLog \o
         [i \in 1..Len(tranche) |-> Req(Kind, List, tranche[i], organization)]
    /\ pc' = "batch"

\* The while condition is false: the pager returns the extracted items.
WhileExits ==
  /\ pc = "loop"
  /\ ~(pageToDoStart < Len(pageToDo))
  /\ items' = ExtractReceived(Kind, responses)
  /\ pagerStatus' = "returned"
  /\ pc' = IF op = "choice" THEN "lists" ELSE "people"
  /\ UNCHANGED <<callVars, op, calls, upstreamPages, cacheTtl, responses, pageToDo,
                 pageToDoStart, thisTranche, arrived, reqLog, reordered, loadVars, store, callbacks, outcome, error, choiceResult,
                 prevLoad>>

\* The loop body starts with the timer wait.
WhileWaits ==
  /\ pc = "loop"
  /\ pageToDoStart < Len(pageToDo)
  /\ NeedsWait(pageToDo)
  /\ reqLog' = Append(reqLog, Wait(WAIT_MILLIS))
  /\ pc' = "wait"
  /\ UNCHANGED <<callVars, op, calls, upstreamPages, cacheTtl, responses, pageToDo,
                 pageToDoStart, thisTranche, arrived, pagerStatus, items,
                 reordered, loadVars, store, callbacks, outcome, error,
                 choiceResult, prevLoad>>

\* The loop body issues the tranche at once.
WhileIssues ==
  /\ pc = "loop"
  /\ pageToDoStart < Len(pageToDo)
  /\ ~NeedsWait(pageToDo)
  /\ IssuesTranche
  /\ UNCHANGED <<callVars, op, calls, upstreamPages, cacheTtl, responses, pageToDo,
                 pageToDoStart, pagerStatus, items, reordered, loadVars,
                 store, callbacks, outcome, error, choiceResult, prevLoad>>

TimerFires ==
  /\ pc = "wait"
  /\ IssuesTranche
  /\ UNCHANGED <<callVars, op, calls, upstreamPages, cacheTtl, responses, pageToDo,
                 pageToDoStart, pagerStatus, items, reordered, loadVars,
                 store, callbacks, outcome, error, choiceResult, prevLoad>>

Pending == {thisTranche[i] : i \in 1..Len(thisTranche)}
              \ {arrived[i] : i \in 1..Len(arrived)}

\* One fetch of the tranche resolves.
PageResolves ==
  /\ pc = "batch"
  /\ \E page \in Pending : arrived' = Append(arrived, page)
  /\ UNCHANGED <<callVars, op, pc, calls, upstreamPages, cacheTtl, responses, pageToDo,
                 pageToDoStart, thisTranche, reqLog, pagerStatus, items,
                 reordered, loadVars, store, callbacks, outcome, error,
                 choiceResult, prevLoad>>

\* One fetch of the tranche rejects, and a rejected page counts as arrived
\* with the others (the behaviour of Promise.allSettled).
PageRejectsSettled ==
  /\ pc = "batch"
  /\ \E page \in Pending :
       /\ reqLog' = Append(reqLog, Fail(page))
       /\ arrived' = Append(arrived, page)
  /\ UNCHANGED <<callVars, op, pc, calls, upstreamPages, cacheTtl, responses, pageToDo,
                 pageToDoStart, thisTranche, pagerStatus, items,
                 reordered, loadVars, store, callbacks, outcome, error, choiceResult,
                 prevLoad>>

\* One fetch of the tranche rejects: Promise.all rejects with it.
PageRejects ==
  /\ pc = "batch"
  /\ \E page \in Pending : reqLog' = Append(reqLog, Fail(page))
  /\ PagerThrows
  /\ UNCHANGED <<callVars, op, calls, upstreamPages, cacheTtl, responses, pageToDo,
                 pageToDoStart, thisTranche, arrived, items, reordered,
                 loadVars,
                 store, callbacks, prevLoad>>

\* Every fetch of the tranche has resolved: the bodies are pushed.
BatchSettles ==
  /\ pc = "batch"
  /\ Pending = {}
  /\ LET order == PushOrder(thisTranche, arrived) IN
       responses' = responses \o
         [i \in 1..Len(order) |-> PageBody(Kind, List, order[i], upstreamPages)]
  /\ pageToDoStart' = PageToDoEnd(pageToDoStart)
  /\ reordered' = (reordered \/ arrived # thisTranche)
  /\ thisTranche' = <<>>
  /\ arrived' = <<>>
  /\ pc' = "loop"
  /\ UNCHANGED <<callVars, op, calls, upstreamPages, cacheTtl, pageToDo, reqLog,
                 pagerStatus, items, loadVars, store, callbacks,
                 outcome, error, choiceResult, prevLoad>>

\* getContactLists maps the fetched lists and getClientChoiceData returns.
ChoiceReturns ==
  /\ pc = "lists"
  /\ choiceResult' = [data |-> StringifyItems(GetContactLists(items)),
                      expiresSeconds |-> ExpiresSeconds(cacheTtl)]
  /\ outcome' = "returned"
  /\ pc' = "done"
  /\ UNCHANGED <<callVars, op, calls, upstreamPages, cacheTtl, pagerVars, loadVars,
                 store, callbacks, error, prevLoad>>

\* The for-of loop goes to the next item with a person id and requests the
\* person, or ends: getContactsFromList returns and the insert is issued.
ForOfItems ==
  /\ pc = "people"
  /\ LET nxt == NextPersonIdx(items, itemIdx) IN
       IF nxt = 0
       THEN /\ itemIdx' = Len(items) + 1
            /\ pc' = "insert"
            /\ UNCHANGED reqLog
       ELSE /\ itemIdx' = nxt
            /\ reqLog' = Append(reqLog,
                  PersonReq(items[nxt][PERSON_ID], organization))
            /\ pc' = "person"
  /\ UNCHANGED <<callVars, op, calls, upstreamPages, cacheTtl, responses, pageToDo,
                 pageToDoStart, thisTranche, arrived, pagerStatus, items,
                 reordered, job, people,
                 fetchFailed, skipped, rowsBefore, store, callbacks, outcome,
                 error, choiceResult, prevLoad>>

\* The person arrives and is mapped.
PersonResolves ==
  /\ pc = "person"
  /\ LET made == MakeContact(Persons[items[itemIdx][PERSON_ID]], job.campaign_id)
     IN  IF made.threw = ""
         THEN /\ people' = Append(people, made.value)
              /\ itemIdx' = itemIdx + 1
              /\ pc' = "people"
              /\ UNCHANGED <<skipped, outcome, error>>
         ELSE IF LoopCatches("mapping")
         THEN /\ skipped' = skipped \cup {itemIdx}
              /\ itemIdx' = itemIdx + 1
              /\ pc' = "people"
              /\ UNCHANGED <<people, outcome, error>>
         ELSE /\ Throws(made.threw)
              /\ UNCHANGED <<people, skipped, itemIdx>>
  /\ UNCHANGED <<callVars, op, calls, upstreamPages, cacheTtl, pagerVars, job,
                 fetchFailed, rowsBefore, store, callbacks, choiceResult,
                 prevLoad>>

\* The person request fails (network error or non-2xx): getPerson rethrows.
PersonRejects ==
  /\ pc = "person"
  /\ fetchFailed' = fetchFailed \cup {itemIdx}
  /\ IF LoopCatches("transport")
     THEN /\ itemIdx' = itemIdx + 1
          /\ pc' = "people"
          /\ UNCHANGED <<outcome, error>>
     ELSE /\ Throws("person")
          /\ UNCHANGED itemIdx
  /\ UNCHANGED <<callVars, op, calls, upstreamPages, cacheTtl, pagerVars, job, people,
                 skipped, rowsBefore, store, callbacks, choiceResult, prevLoad>>

\* The bulk insert resolves and completeContactLoad is called.
InsertResolves ==
  /\ pc = "insert"
  /\ store' = BatchInsert(store, people, INSERT_CHUNK)
  /\ callbacks' = Append(callbacks,
       [fn |-> "completeContactLoad", job |-> job,
        requested |-> JsonParse(job.payload).requestContactCount,
        result |-> StringifyFinalCount(FinalCount(people, maxContacts))])
  /\ pc' = "complete"
  /\ UNCHANGED <<callVars, op, calls, upstreamPages, cacheTtl, pagerVars, loadVars,
                 outcome, error, choiceResult, prevLoad>>

InsertRejects ==
  /\ pc = "insert"
  /\ Throws("insert")
  /\ UNCHANGED <<callVars, op, calls, upstreamPages, cacheTtl, pagerVars, loadVars,
                 store, callbacks, choiceResult, prevLoad>>

\* completeContactLoad resolves and processContactLoad returns.
CompleteResolves ==
  /\ pc = "complete"
  /\ outcome' = "returned"
  /\ pc' = "done"
  /\ UNCHANGED <<callVars, op, calls, upstreamPages, cacheTtl, pagerVars, loadVars,
                 store, callbacks, error, choiceResult, prevLoad>>

CompleteRejects ==
  /\ pc = "complete"
  /\ Throws("complete")
  /\ UNCHANGED <<callVars, op, calls, upstreamPages, cacheTtl, pagerVars, loadVars,
                 store, callbacks, choiceResult, prevLoad>>

Next ==
  \/ StartChoice
  \/ StartLoad
  \/ RerunLoad
  \/ DeleteResolves
  \/ DeleteRejects
  \/ FirstPageResolves
  \/ FirstPageRejects
  \/ WhileExits
  \/ WhileWaits
  \/ WhileIssues
  \/ TimerFires
  \/ PageResolves
  \/ PageRejects
  \/ BatchSettles
  \/ ChoiceReturns
  \/ ForOfItems
  \/ PersonResolves
  \/ PersonRejects
  \/ InsertResolves
  \/ InsertRejects
  \/ CompleteResolves
  \/ CompleteRejects

Spec == Init /\ [][Next]_vars

\* ------------------------------------------------------------- properties
\* What the upstream holds, computed apart from the pager: the pages the
\* endpoint serves for a reported total, and their items in page order.
PagesServed(total) == IF total = Undefined \/ total < 1 THEN 1 ELSE total

RECURSIVE UpstreamItems(_, _, _)
UpstreamItems(kind, list, lastPage) ==
  IF lastPage = 0 THEN <<>>
  ELSE UpstreamItems(kind, list, lastPage - 1) \o EmbeddedOf(kind, list, lastPage)

\* The events of the log of one kind, and the pages requested, in order.
RequestedPages ==
  LET reqs == SelectSeq(reqLog, LAMBDA e : e.ev = "req")
  IN  [i \in 1..Len(reqs) |-> reqs[i].page]

FailedPages == {reqLog[i].page : i \in {k \in 1..Len(reqLog) : reqLog[k].ev = "fail"}}

Waited == \E i \in 1..Len(reqLog) : reqLog[i].ev = "wait"

\* A person makeContact accepts.
Mappable(person) ==
  /\ "Phone" \in DOMAIN person.custom_fields
  /\ person.postal_addresses # <<>>

\* The contacts of the items whose person was fetched and mapped, in item
\* order: item i of `its` counts when it carries a person id, its fetch did
\* not fail and its person is mappable.
RECURSIVE ContactsOf(_, _, _, _)
ContactsOf(its, upTo, failed, campaignId) ==
  IF upTo = 0 THEN <<>>
  ELSE LET rest == ContactsOf(its, upTo - 1, failed, campaignId)
           item == its[upTo]
       IN  IF /\ HasPersonId(item)
              /\ upTo \notin failed
              /\ Mappable(Persons[item[PERSON_ID]])
           THEN Append(rest, MakeContact(Persons[item[PERSON_ID]], campaignId).value)
           ELSE rest

LoadReturned == op = "load" /\ outcome = "returned"

C2_SettledLoadCalledBack ==
  (op = "load" /\ pc = "done") => callbacks # <<>>

C5_FailureAbortsPager ==
  FailedPages # {} =>
    /\ pagerStatus = "thrown"
    /\ items = <<>>
    /\ reqLog[Len(reqLog)].ev = "fail"
    /\ Cardinality({i \in 1..Len(reqLog) : reqLog[i].ev = "fail"}) = 1

C5_Witness ==
  /\ pagerStatus = "thrown"
  /\ items = <<>>
  /\ \E page \in FailedPages : page > REQUESTS_PER_SECOND + 1
  /\ Len(responses) > 1

\* C6: at most REQUESTS_PER_SECOND page requests are issued without a wait
\* between them, the request for page 1 counted with the batches after it.
C6_AtMostFourWithoutWait ==
  \A i \in 1..Len(reqLog) : \A j \in i..Len(reqLog) :
    (\A k \in i..j : reqLog[k].ev # "wait") =>
      Cardinality({k \in i..j : reqLog[k].ev = "req"}) <= REQUESTS_PER_SECOND

C6_Witness ==
  /\ pagerStatus = "returned"
  /\ Waited
  /\ \E i \in 1..Len(reqLog) :
       /\ reqLog[i].ev = "wait"
       /\ i + REQUESTS_PER_SECOND <= Len(reqLog)
       /\ \A k \in (i + 1)..(i + REQUESTS_PER_SECOND) : reqLog[k].ev = "req"

\* C7: getClientChoiceData never throws: when a page fetch of the list fetch
\* failed it returns the serialized error payload, otherwise the serialized
\* {items} choices.
C7_ChoiceNeverThrows ==
  op = "choice" =>
    /\ outcome # "thrown"
    /\ pc = "done" =>
         /\ outcome = "returned"
         /\ IF FailedPages # {}
            THEN choiceResult.data = ErrorPayload
            ELSE choiceResult.data =
                   StringifyItems(GetContactLists(
                     UpstreamItems("lists", "", PagesServed(upstreamPages))))
         /\ (FailedPages = {} /\ upstreamPages = 1) =>
              choiceResult.data =
                "{\"items\":[{\"name\":\"Volunteers\",\"identifier\":\"v1\"}]}"

C7_Witness ==
  /\ op = "choice"
  /\ pc = "done"
  /\ outcome = "returned"
  /\ choiceResult.data = ErrorPayload
  /\ \E page \in FailedPages : page > 1

\* C8: a person without a Phone custom field or without a postal address is
\* left out of the campaign's rows, and the load goes on: the mapping error
\* never rejects the load, every item with a person id is processed before
\* the insert, and the load that returns has inserted and reported.
PersonItems == {i \in 1..Len(items) : HasPersonId(items[i])}

C9_PersonFetchFailureFailsLoad ==
  (op = "load" /\ fetchFailed # {}) =>
    /\ pc # "complete"
    /\ callbacks = <<>>
    /\ pc = "done" => outcome = "thrown"

FirstMatch(thing) ==
  LET m == {i \in 1..Len(thing.identifiers) : RegexExec(thing.identifiers[i]).matched}
  IN  IF m = {} THEN 0 ELSE CHOOSE i \in m : \A j \in m : i <= j

EntryOf(thing) ==
  [name |-> thing.name,
   identifier |-> RegexExec(thing.identifiers[FirstMatch(thing)]).group]

\* A record with a name and a matching entry; and one whose first matching
\* entry also has text after "action_network:".
HasIdAndName(thing) == thing.name # "" /\ FirstMatch(thing) # 0

HasUsableIdAndName(thing) ==
  HasIdAndName(thing) /\ EntryOf(thing).identifier # ""

EntriesOf(fetched, Qualifies(_)) ==
  LET kept == SelectSeq(fetched, Qualifies)
  IN  [i \in 1..Len(kept) |-> EntryOf(kept[i])]

\* C11 as stated: getContactLists outputs, in fetched order, one {name,
\* identifier: x} entry for every fetched list with an entry matching
\* action_network:<x> and a non-empty name, x from the first matching entry,
\* and nothing else.
C11_EntryForEveryMatchingList ==
  (op = "choice" /\ pagerStatus = "returned") =>
    GetContactLists(items) = EntriesOf(items, HasIdAndName)

\* C11 amended: the lists that get an entry are those with a non-empty name
\* whose first matching entry has a non-empty x; a list whose first matching
\* entry is "action_network:" alone gets none, whatever its later entries.
C11_EntryForEveryUsableList ==
  (op = "choice" /\ pagerStatus = "returned") =>
    /\ GetContactLists(items) = EntriesOf(items, HasUsableIdAndName)
    /\ pc = "done" =>
         choiceResult.data = StringifyItems(EntriesOf(items, HasUsableIdAndName))

C11_Witness ==
  /\ op = "choice"
  /\ pc = "done"
  /\ pagerStatus = "returned"
  /\ upstreamPages >= 5
  /\ GetContactLists(items) = <<[name |-> "Volunteers", identifier |-> "v1"],
                                [name |-> "Members", identifier |-> "m1"]>>

\* -------------------------------------------------------------------- C12
\* The domain and base path the organization's settings resolve to.
ScopedPrefix(org) ==
  Or(GetConfig(ENV_DOMAIN, org), DEFAULT_DOMAIN)
    \o Or(GetConfig(ENV_BASE_URL, org), DEFAULT_BASE_URL)

HasScopedUrl(org) ==
  /\ ENV_DOMAIN \in DOMAIN OrgSettings(org)
  /\ ENV_BASE_URL \in DOMAIN OrgSettings(org)

\* C12: the URL of every page request and person request made for an
\* organization that has its own API domain and base path configured starts
\* with that domain and base path, not the global value or the default.
C12_UrlUsesOrganizationSettings ==
  HasScopedUrl(organization) =>
    \A i \in 1..Len(reqLog) :
      reqLog[i].ev \in {"req", "person"} =>
        reqLog[i].url = ScopedPrefix(organization) \o "/" \o reqLog[i].path

\* -------------------------------------------------------------------- C13
SinglePage == upstreamPages \in {Undefined, 0, 1}

\* C13: when the first page's total_pages is 1, 0 or absent, the pager
\* requests page 1 and nothing else, never waits, never enters a batch cycle,
\* and what it returns is the first page's items.
C13_SinglePageNoBatch ==
  (SinglePage /\ pagerStatus # "none") =>
    /\ RequestedPages = <<1>>
    /\ ~Waited
    /\ pc \notin {"wait", "batch"}
    /\ thisTranche = <<>>
    /\ pagerStatus = "running" => pc \in {"first", "loop"}
    /\ pagerStatus = "returned" =>
         /\ pageToDo = <<>>
         /\ items = EmbeddedOf(Kind, List, 1)

C13_Witness ==
  /\ op = "load"
  /\ upstreamPages = Undefined
  /\ pagerStatus = "returned"
  /\ pc = "done"
  /\ items # <<>>
  /\ callbacks # <<>>

\* -------------------------------------------------------------------- C14
\* The last n events of the log.
LastEvents(n) == SubSeq(reqLog, Len(reqLog) - n + 1, Len(reqLog))

\* All fetches of the tranche in flight were issued together: they are the
\* last events of the log, in tranche order, nothing between them.
IssuedTogether ==
  /\ Len(reqLog) >= Len(thisTranche)
  /\ LastEvents(Len(thisTranche))
       = [i \in 1..Len(thisTranche) |->
            Req(Kind, List, thisTranche[i], organization)]

\* C14 as stated: every batch issued after the first page has at most
\* 4 - 1 = 3 fetches, all issued concurrently.
C14_BatchOfAtMostThree ==
  pc = "batch" =>
    /\ Len(thisTranche) <= REQUESTS_PER_SECOND - FirstPagePromisesLength
    /\ IssuedTogether

\* C14 amended: a batch has between 1 and REQUESTS_PER_SECOND = 4 fetches,
\* all issued concurrently; it has at most 3 when no wait preceded it, and a
\* batch of 4 always comes straight after a wait.
C14_BatchOfAtMostFour ==
  pc = "batch" =>
    /\ Len(thisTranche) \in 1..REQUESTS_PER_SECOND
    /\ IssuedTogether
    /\ ~Waited => Len(thisTranche) <= REQUESTS_PER_SECOND - FirstPagePromisesLength
    /\ Len(thisTranche) = REQUESTS_PER_SECOND =>
         /\ Len(reqLog) > REQUESTS_PER_SECOND
         /\ reqLog[Len(reqLog) - REQUESTS_PER_SECOND].ev = "wait"

C14_Witness ==
  /\ pc = "batch"
  /\ Len(thisTranche) = REQUESTS_PER_SECOND
  /\ Len(arrived) = 2
  /\ upstreamPages = REQUESTS_PER_SECOND + 2

\* -------------------------------------------------------------------- C15
\* The pages still to be fetched when the loop body starts, and how many fit
\* in the window the first request has already taken a place of.
RemainingPages == Len(pageToDo) - pageToDoStart
FitsInWindow(n) == n <= REQUESTS_PER_SECOND - FirstPagePromisesLength

\* The event right before the tranche in flight is the timer wait.
BatchFollowsWait ==
  /\ Len(reqLog) > Len(thisTranche)
  /\ reqLog[Len(reqLog) - Len(thisTranche)].ev = "wait"

\* C15 as stated: the pager is suspended in the wait only if the pages still
\* to be fetched at that moment are more than fit in one window; when they
\* fit it goes on to the batch without waiting.
C15_WaitsOnlyWhenRemainingExceedsWindow ==
  /\ pc = "wait" => ~FitsInWindow(RemainingPages)
  /\ pc = "batch" =>
       (BatchFollowsWait <=> ~FitsInWindow(RemainingPages))

\* C15 amended: the wait test looks at the whole queue built from
\* total_pages, not at what remains: every batch of a run follows a wait when
\* the queue has more than 3 pages, and no batch does when it has 3 or fewer.
C15_WaitsWhenQueueExceedsWindow ==
  /\ pc = "wait" => ~FitsInWindow(Len(pageToDo))
  /\ pc = "batch" =>
       (BatchFollowsWait <=> ~FitsInWindow(Len(pageToDo)))

C15_Witness ==
  /\ pc = "wait"
  /\ pageToDoStart > 0
  /\ FitsInWindow(RemainingPages)
  /\ ~FitsInWindow(Len(pageToDo))

\* -------------------------------------------------------------------- C16
PersonEvents == SelectSeq(reqLog, LAMBDA e : e.ev = "person")

\* Every request of the log has been answered: each requested page's body
\* has been pushed and each person request has resolved, been skipped or
\* failed.
AllRequestsSettled ==
  /\ pagerStatus = "returned"
  /\ thisTranche = <<>>
  /\ Len(responses) = Len(RequestedPages)
  /\ itemIdx = Len(items) + 1
  /\ Len(PersonEvents)
       = Len(people) + Cardinality(skipped) + Cardinality(fetchFailed)

\* A step of the run threw: the delete, the payload parse, a list-items page
\* fetch or the bulk insert.
StepFailed ==
  \/ error \in {"delete", "SyntaxError", "page", "insert"}
  \/ FailedPages # {}
  \/ JsonParse(job.payload).threw

FailedAfterDelete ==
  /\ op = "load"
  /\ outcome = "thrown"
  /\ error \in {"SyntaxError", "page"}

\* C18: when processContactLoad fails after its delete step, on a malformed
\* payload or on a failed list-items page fetch, the campaign has no rows:
\* those it had before the call are gone and none has been inserted.
C18_FailureLeavesCampaignEmpty ==
  FailedAfterDelete =>
    /\ RowsOf(store, job.campaign_id) = <<>>
    /\ store = othersBefore
    /\ callbacks = <<>>

C18_Witness ==
  /\ FailedAfterDelete
  /\ error = "page"
  /\ FailedPages = {3}
  /\ rowsBefore # <<>>
  /\ RowsOf(store, job.campaign_id) = <<>>

\* -------------------------------------------------------------------- C19
DeleteDone == pc # "delete" /\ error # "delete"

PersonIdsOf(its) ==
  LET with == SelectSeq(its, HasPersonId)
  IN  [i \in 1..Len(with) |-> with[i][PERSON_ID]]

PersonsSettled == Len(people) + Cardinality(skipped) + Cardinality(fetchFailed)

\* The position of the first person request in the log, 0 when there is none.
FirstPersonEvent ==
  LET at == {i \in 1..Len(reqLog) : reqLog[i].ev = "person"}
  IN  IF at = {} THEN 0 ELSE CHOOSE i \in at : \A j \in at : i <= j

====
